---- MODULE Spec2Model ----
(***************************************************************************)
(* Model of modules/protocol/src/utils.ts: the parameter reconstruction,   *)
(* commitment signing, signature validation, deposit reconciliation and    *)
(* channel-balance update of the vector protocol.                          *)
(***************************************************************************)
EXTENDS Integers, Sequences, FiniteSets, TLC

(***************************************************************************)
(* Bounds of the model.                                                    *)
(***************************************************************************)
MaxNonce == 2
MaxCalls == 2
MaxAmount == 2
MaxTransfer == 2
MaxDeposit == 1

(***************************************************************************)
(* Participants, channel states, hashes and signatures.                    *)
(***************************************************************************)
Alice == "0xA"
Bob == "0xB"
Carol == "0xC"
\* what ecrecover yields for a signature made over another hash
Stranger == "0xD"

NetworkContexts == {"chain1", "chain2"}

\* FullChannelState: the participants, the rest of the core (nonce), whether
\* the core can be abi-encoded, and the contextual networkContext
FullChannelStates ==
  [alice : {Alice}, bob : {Bob}, nonce : 1..MaxNonce, encodable : BOOLEAN,
   networkContext : NetworkContexts]

\* const { networkContext, ...core } = state
CoreOfWithContext(s) ==
  [alice |-> s.alice, bob |-> s.bob, nonce |-> s.nonce, encodable |-> s.encodable,
   ctx |-> s.networkContext]

CoreOf(s) ==
  [alice |-> s.alice, bob |-> s.bob, nonce |-> s.nonce, encodable |-> s.encodable,
   ctx |-> "none"]

\* hashChannelCommitment(core): throws on a core that cannot be encoded,
\* otherwise an injective digest of the core
HashThrows(core) == ~core.encodable

hashChannelCommitment(core) == <<core.alice, core.bob, core.nonce, core.ctx>>

AllHashes ==
  {hashChannelCommitment(CoreOf(s)) : s \in {t \in FullChannelStates : t.encodable}}

\* optional signature arguments: undefined, the empty string, a string that
\* is not a signature, and signatures made by an address over a hash
Undefined == [k |-> "undefined", by |-> "", h |-> <<>>]
EmptyStr == [k |-> "empty", by |-> "", h |-> <<>>]
Malformed == [k |-> "malformed", by |-> "", h |-> <<>>]
Sig(a, h) == [k |-> "sig", by |-> a, h |-> h]

SigValues ==
  {Undefined, EmptyStr, Malformed} \cup {Sig(a, h) : a \in {Alice, Bob, Carol}, h \in AllHashes}

\* JavaScript truthiness of an optional string
Truthy(sig) == sig.k \notin {"undefined", "empty"}

\* IChannelSigner
Signers ==
  {[address |-> Alice, publicIdentifier |-> "indraA"],
   [address |-> Bob, publicIdentifier |-> "indraB"],
   [address |-> Carol, publicIdentifier |-> "indraC"]}

\* signer.signMessage(hash), when it does not throw
signMessage(signer, hash) == Sig(signer.address, hash)

\* recoverAddressFromChannelMessage(hash, sig)
RecoverThrows(sig) == sig.k = "malformed"

RecoveryErrorMessage == "signature missing v and recoveryParam"

recoverAddressFromChannelMessage(hash, sig) ==
  IF sig.h = hash THEN sig.by ELSE Stranger

\* Result.ok / Result.fail
ResultOk == [ok |-> TRUE, err |-> <<>>]
ResultFail(msg) == [ok |-> FALSE, err |-> msg]

(***************************************************************************)
(* generateSignedChannelCommitment                                         *)
(***************************************************************************)
\* the slot test: const isAlice = signer.address === newState.alice
IsAlice(signer, newState) == signer.address = newState.alice

\* the early return: if (aliceSignature && bobSignature)
AlreadySignedNever(aSig, bSig) == FALSE

AlreadySigned(aSig, bSig) == Truthy(aSig) /\ Truthy(bSig)

\* signerThrows: signer.signMessage rejects
generateSignedChannelCommitment(newState, signer, aSig, bSig, signerThrows) ==
  LET core == CoreOf(newState) IN
  IF AlreadySigned(aSig, bSig)
  THEN [ok |-> TRUE, core |-> core, aliceSignature |-> aSig, bobSignature |-> bSig,
        invoked |-> FALSE]
  ELSE IF HashThrows(core)
  THEN [ok |-> FALSE, core |-> core, aliceSignature |-> Undefined, bobSignature |-> Undefined,
        invoked |-> FALSE]
  ELSE IF signerThrows
  THEN [ok |-> FALSE, core |-> core, aliceSignature |-> Undefined, bobSignature |-> Undefined,
        invoked |-> TRUE]
  ELSE LET sig == signMessage(signer, hashChannelCommitment(core))
           isAlice == IsAlice(signer, newState)
       IN [ok |-> TRUE, core |-> core,
           aliceSignature |-> IF isAlice THEN sig ELSE aSig,
           bobSignature |-> IF isAlice THEN bSig ELSE sig,
           invoked |-> TRUE]

(***************************************************************************)
(* validateChannelUpdateSignatures                                         *)
(***************************************************************************)
NoSignatureProvided == "No signature provided"
Pending == "pending"

\* the recovery helper
tryRecovery(hash, sig) ==
  IF ~Truthy(sig) THEN NoSignatureProvided
  ELSE IF RecoverThrows(sig) THEN RecoveryErrorMessage
  ELSE recoverAddressFromChannelMessage(hash, sig)

RequiredSigners == {"alice", "bob", "both"}

\* the error text, kept as the sequence of the pieces that are concatenated
ErrorMessage(s, rAlice, rBob, requiredSigners, aliceNeeded, bobNeeded) ==
  <<"Expected ", IF requiredSigners = "both" THEN "alice + bob" ELSE requiredSigners, " ",
    IF aliceNeeded THEN s.alice ELSE "",
    IF bobNeeded THEN " + " ELSE "", IF bobNeeded THEN s.bob ELSE "",
    ". Got: ",
    IF aliceNeeded THEN "(alice) " ELSE "", IF aliceNeeded THEN rAlice ELSE "",
    IF bobNeeded THEN "+ (bob) " ELSE "", IF bobNeeded THEN rBob ELSE "">>

\* the policy decision taken on the two recovered values
PolicyIgnoringExtra(s, aSig, bSig, rAlice, rBob, requiredSigners) ==
  LET aliceSigned == rAlice = s.alice
      bobSigned == rBob = s.bob
      bobNeeded == requiredSigners \in {"bob", "both"}
      aliceNeeded == requiredSigners \in {"alice", "both"}
  IN IF (aliceNeeded => aliceSigned) /\ (bobNeeded => bobSigned)
     THEN ResultOk
     ELSE ResultFail(ErrorMessage(s, rAlice, rBob, requiredSigners, aliceNeeded, bobNeeded))

Policy(s, aSig, bSig, rAlice, rBob, requiredSigners) ==
  LET aliceSigned == rAlice = s.alice
      bobSigned == rBob = s.bob
      bobNeeded == requiredSigners \in {"bob", "both"}
      aliceNeeded == requiredSigners \in {"alice", "both"}
  IN IF aliceNeeded /\ bobNeeded /\ aliceSigned /\ bobSigned THEN ResultOk
     ELSE IF aliceNeeded /\ aliceSigned /\ ~Truthy(bSig) /\ ~bobNeeded THEN ResultOk
     ELSE IF bobNeeded /\ bobSigned /\ ~Truthy(aSig) /\ ~aliceNeeded THEN ResultOk
     ELSE IF Truthy(aSig) /\ aliceSigned /\ Truthy(bSig) /\ bobSigned THEN ResultOk
     ELSE ResultFail(ErrorMessage(s, rAlice, rBob, requiredSigners, aliceNeeded, bobNeeded))

HashFailure == ResultFail(<<"Failed to generate channel commitment hash">>)

\* the whole call, for callers that only need its result
validateChannelUpdateSignatures(s, aSig, bSig, requiredSigners) ==
  LET core == CoreOf(s) IN
  IF HashThrows(core) THEN HashFailure
  ELSE LET hash == hashChannelCommitment(core)
       IN Policy(s, aSig, bSig, tryRecovery(hash, aSig), tryRecovery(hash, bSig),
                 requiredSigners)

\* Promise.all resolves once both recoveries have resolved
AnyResolved(done) == done # {}

AllResolved(done) == done = {"alice", "bob"}


(***************************************************************************)
(* State.                                                                  *)
(***************************************************************************)
VARIABLES
  state,           \* the channel state being agreed on
  aliceSignature,  \* the commitment's signature slots held by the caller
  bobSignature,
  fromEmpty,       \* the commitment started with both slots absent
  trace,           \* the signMessage calls that produced a signature
  last,            \* the last generateSignedChannelCommitment call
  v,               \* the validateChannelUpdateSignatures call in flight
  chan,            \* the channel ledger: assetIds, balances
  processed,       \* the processedDeposit watermark persisted per asset
  chain,           \* the cumulative on-chain deposits per asset
  rc,              \* the reconcileDeposit call in flight
  prev,            \* the previous successful reconcileDeposit result
  lastBal,         \* the last getUpdatedChannelBalance call
  pu               \* the update being applied and reconstructed

sigVars == <<state, aliceSignature, bobSignature, fromEmpty, trace, last, v>>
ledgerVars == <<chan, processed, chain, rc, prev, lastBal>>
vars == <<state, aliceSignature, bobSignature, fromEmpty, trace, last, v,
          chan, processed, chain, rc, prev, lastBal, pu>>

NoCall ==
  [called |-> FALSE, signer |-> "", inA |-> Undefined, inB |-> Undefined,
   res |-> [ok |-> FALSE, core |-> <<>>, aliceSignature |-> Undefined,
            bobSignature |-> Undefined, invoked |-> FALSE]]

VIdle ==
  [pc |-> "idle", req |-> "both", done |-> {}, order |-> <<>>, rAlice |-> Pending,
   rBob |-> Pending, result |-> ResultOk]

(***************************************************************************)
(* Signing a commitment: the caller feeds each returned pair back in.      *)
(***************************************************************************)
SignCommitment(signer, signerThrows) ==
  LET r == generateSignedChannelCommitment(state, signer, aliceSignature, bobSignature,
                                           signerThrows)
      produced == r.ok /\ r.invoked
  IN /\ v.pc = "idle"
     /\ produced => Len(trace) < MaxCalls
     /\ last' = [called |-> TRUE, signer |-> signer.address, inA |-> aliceSignature,
                 inB |-> bobSignature, res |-> r]
     /\ aliceSignature' = IF r.ok THEN r.aliceSignature ELSE aliceSignature
     /\ bobSignature' = IF r.ok THEN r.bobSignature ELSE bobSignature
     /\ trace' = IF produced
                 THEN Append(trace, [by |-> signer.address, ctx |-> state.networkContext])
                 ELSE trace
     /\ UNCHANGED <<state, fromEmpty, v, ledgerVars, pu>>

\* the two parties hold the same core state under their own networkContext
NewContext(ctx) ==
  /\ v.pc = "idle"
  /\ ctx # state.networkContext
  /\ state' = [state EXCEPT !.networkContext = ctx]
  /\ UNCHANGED <<aliceSignature, bobSignature, fromEmpty, trace, last, v, ledgerVars, pu>>

(***************************************************************************)
(* Validating a commitment: the two recoveries settle in either order.     *)
(***************************************************************************)
ValidateCall(requiredSigners) ==
  /\ v.pc = "idle"
  /\ v' = IF HashThrows(CoreOf(state))
          THEN [VIdle EXCEPT !.pc = "done", !.req = requiredSigners, !.result = HashFailure]
          ELSE [VIdle EXCEPT !.pc = "recovering", !.req = requiredSigners]
  /\ UNCHANGED <<state, aliceSignature, bobSignature, fromEmpty, trace, last, ledgerVars, pu>>

RecoverAliceSettles ==
  /\ v.pc = "recovering"
  /\ "alice" \notin v.done
  /\ v' = [v EXCEPT !.rAlice = tryRecovery(hashChannelCommitment(CoreOf(state)), aliceSignature),
                    !.done = @ \cup {"alice"}, !.order = Append(@, "alice")]
  /\ UNCHANGED <<state, aliceSignature, bobSignature, fromEmpty, trace, last, ledgerVars, pu>>

RecoverBobSettles ==
  /\ v.pc = "recovering"
  /\ "bob" \notin v.done
  /\ v' = [v EXCEPT !.rBob = tryRecovery(hashChannelCommitment(CoreOf(state)), bobSignature),
                    !.done = @ \cup {"bob"}, !.order = Append(@, "bob")]
  /\ UNCHANGED <<state, aliceSignature, bobSignature, fromEmpty, trace, last, ledgerVars, pu>>

Decide ==
  /\ v.pc = "recovering"
  /\ AllResolved(v.done)
  /\ v' = [v EXCEPT !.pc = "done",
                    !.result = Policy(state, aliceSignature, bobSignature, v.rAlice, v.rBob,
                                      v.req)]
  /\ UNCHANGED <<state, aliceSignature, bobSignature, fromEmpty, trace, last, ledgerVars, pu>>

ValidateReturn ==
  /\ v.pc = "done"
  /\ v' = VIdle
  /\ UNCHANGED <<state, aliceSignature, bobSignature, fromEmpty, trace, last, ledgerVars, pu>>


(***************************************************************************)
(* Decimal strings and BigNumber.                                          *)
(***************************************************************************)
RECURSIVE DigitsOf(_)
DigitsOf(n) == IF n < 10 THEN <<n>> ELSE Append(DigitsOf(n \div 10), n % 10)

RECURSIVE ValueOf(_)
ValueOf(digits) ==
  IF digits = <<>> THEN 0
  ELSE 10 * ValueOf(SubSeq(digits, 1, Len(digits) - 1)) + digits[Len(digits)]

\* BigNumber.from(string): the integer a decimal string denotes
BigNumberFrom(str) == IF str.neg THEN 0 - ValueOf(str.digits) ELSE ValueOf(str.digits)

\* BigNumber.toString(): the canonical decimal string of an integer
BigNumberToString(n) == [neg |-> n < 0, digits |-> DigitsOf(IF n < 0 THEN 0 - n ELSE n)]

\* a decimal string with a leading zero, as a request may carry it
Padded(n) == [neg |-> FALSE, digits |-> <<0>> \o DigitsOf(n)]

Zero == BigNumberToString(0)

(***************************************************************************)
(* The channel ledger.                                                     *)
(***************************************************************************)
AssetIds == <<"ETH", "TKN">>

NoBalance == [to |-> <<>>, amount |-> <<>>]

\* state.assetIds.findIndex((a) => a === assetId), 0 standing for -1
RECURSIVE FindIndexFrom(_, _, _)
FindIndexFrom(seq, x, i) ==
  IF i > Len(seq) THEN 0
  ELSE IF seq[i] = x THEN i
  ELSE FindIndexFrom(seq, x, i + 1)

FindIndex(seq, x) == FindIndexFrom(seq, x, 1)

\* state.balances[assetIdx] || { to: [state.alice, state.bob], amount: ["0", "0"] }
ExistingBalance(st, assetIdx) ==
  IF assetIdx <= Len(st.balances) /\ st.balances[assetIdx] # NoBalance
  THEN st.balances[assetIdx]
  ELSE [to |-> <<st.alice, st.bob>>, amount |-> <<Zero, Zero>>]

\* updateExistingAmount
updateExistingAmount(type, existingBalance, transferBalance) ==
  IF type = "create"
  THEN BigNumberToString(BigNumberFrom(existingBalance) - BigNumberFrom(transferBalance))
  ELSE BigNumberToString(BigNumberFrom(existingBalance) + BigNumberFrom(transferBalance))

\* the transfer amounts that correspond to the channel participants
TransferAmountsByRecipient(balanceToReconcile, st, initiator) ==
  <<IF balanceToReconcile.to[1] = st.alice THEN balanceToReconcile.amount[1]
    ELSE balanceToReconcile.amount[2],
    IF balanceToReconcile.to[1] = st.bob THEN balanceToReconcile.amount[1]
    ELSE balanceToReconcile.amount[2]>>

TransferAmounts(balanceToReconcile, st, initiator) ==
  <<IF initiator = st.alice THEN balanceToReconcile.amount[1]
    ELSE balanceToReconcile.amount[2],
    IF initiator = st.bob THEN balanceToReconcile.amount[1]
    ELSE balanceToReconcile.amount[2]>>

getUpdatedChannelBalance(type, assetId, balanceToReconcile, st, initiator) ==
  LET assetIdx == FindIndex(st.assetIds, assetId) IN
  IF assetIdx = 0
  THEN [threw |-> TRUE, to |-> <<>>, amount |-> <<>>]
  ELSE LET existing == ExistingBalance(st, assetIdx)
           t == TransferAmounts(balanceToReconcile, st, initiator)
       IN [threw |-> FALSE,
           to |-> existing.to,
           amount |-> <<updateExistingAmount(type, existing.amount[1], t[1]),
                        updateExistingAmount(type, existing.amount[2], t[2])>>]

\* the caller replaces the ledger entry of the asset by a returned balance
RECURSIVE PadTo(_, _)
PadTo(balances, n) ==
  IF Len(balances) >= n THEN balances ELSE PadTo(Append(balances, NoBalance), n)

ReplaceEntry(st, assetIdx, balance) ==
  [st EXCEPT !.balances = [PadTo(st.balances, assetIdx) EXCEPT ![assetIdx] = balance]]


(***************************************************************************)
(* reconcileDeposit                                                        *)
(***************************************************************************)
\* the Result of chainReader.getTotalDepositedA / getTotalDepositedB
ChainRead(fails, total, error) ==
  IF fails THEN [isError |-> TRUE, value |-> 0, error |-> error]
  ELSE [isError |-> FALSE, value |-> total, error |-> ""]

\* if (totalDepositedARes.isError) / if (totalDepositedBRes.isError)
IsErrorIgnored(res) == FALSE

IsError(res) == res.isError

\* BigNumber.from(totalDeposits).sub(processedDeposit)
DepositsToReconcileNoWatermark(total, processedDeposit) == total

DepositsToReconcile(total, processedDeposit) == total - BigNumberFrom(processedDeposit)

\* { ...initialBalance, amount: [ ... ] }
ReconciledBalance(initialBalance, totalA, totalB, processedDepositA, processedDepositB) ==
  [to |-> initialBalance.to,
   amount |->
     <<BigNumberToString(BigNumberFrom(initialBalance.amount[1])
                         + DepositsToReconcile(totalA, processedDepositA)),
       BigNumberToString(BigNumberFrom(initialBalance.amount[2])
                         + DepositsToReconcile(totalB, processedDepositB))>>]

NoResult ==
  [ok |-> FALSE, err |-> "", balance |-> NoBalance, totalDepositsAlice |-> <<>>,
   totalDepositsBob |-> <<>>]

RcIdle ==
  [pc |-> "idle", asset |-> "", initialBalance |-> NoBalance, processedA |-> Zero,
   processedB |-> Zero, readA |-> "none", readB |-> "none", totalA |-> 0,
   computed |-> FALSE, result |-> NoResult]

NoPrev == [ok |-> FALSE, balance |-> NoBalance, totalDepositsAlice |-> <<>>,
           totalDepositsBob |-> <<>>]

\* the caller passes the ledger entry of the asset and the persisted watermark
ReconcileCall(assetId) ==
  /\ rc.pc = "idle"
  /\ FindIndex(chan.assetIds, assetId) # 0
  /\ rc' = [RcIdle EXCEPT !.pc = "readA", !.asset = assetId,
                          !.initialBalance =
                             ExistingBalance(chan, FindIndex(chan.assetIds, assetId)),
                          !.processedA = processed[assetId].a,
                          !.processedB = processed[assetId].b]
  /\ UNCHANGED <<sigVars, chan, processed, chain, prev, lastBal, pu>>

\* await chainReader.getTotalDepositedA(...)
ReadTotalDepositedA(fails) ==
  /\ rc.pc = "readA"
  /\ LET res == ChainRead(fails, chain[rc.asset].a, "getTotalDepositedA failed") IN
       rc' = IF IsError(res)
             THEN [rc EXCEPT !.pc = "done", !.readA = IF fails THEN "fail" ELSE "ok",
                             !.result = [NoResult EXCEPT !.err = res.error]]
             ELSE [rc EXCEPT !.pc = "readB", !.readA = IF fails THEN "fail" ELSE "ok",
                             !.totalA = res.value]
  /\ UNCHANGED <<sigVars, chan, processed, chain, prev, lastBal, pu>>

\* await chainReader.getTotalDepositedB(...) and the arithmetic that follows
ReadTotalDepositedB(fails) ==
  /\ rc.pc = "readB"
  /\ LET res == ChainRead(fails, chain[rc.asset].b, "getTotalDepositedB failed") IN
       rc' = IF IsError(res)
             THEN [rc EXCEPT !.pc = "done", !.readB = IF fails THEN "fail" ELSE "ok",
                             !.result = [NoResult EXCEPT !.err = res.error]]
             ELSE [rc EXCEPT !.pc = "done", !.readB = IF fails THEN "fail" ELSE "ok",
                             !.computed = TRUE,
                             !.result =
                                [ok |-> TRUE, err |-> "",
                                 balance |-> ReconciledBalance(rc.initialBalance, rc.totalA,
                                                res.value, rc.processedA, rc.processedB),
                                 totalDepositsAlice |-> BigNumberToString(rc.totalA),
                                 totalDepositsBob |-> BigNumberToString(res.value)]]
  /\ UNCHANGED <<sigVars, chan, processed, chain, prev, lastBal, pu>>

\* the caller persists a successful result: the balance replaces the ledger
\* entry and the returned totals become the processed watermark
ReconcileReturn ==
  /\ rc.pc = "done"
  /\ rc' = RcIdle
  /\ IF rc.result.ok
     THEN /\ chan' = ReplaceEntry(chan, FindIndex(chan.assetIds, rc.asset), rc.result.balance)
          /\ processed' = [processed EXCEPT ![rc.asset] =
                             [a |-> rc.result.totalDepositsAlice,
                              b |-> rc.result.totalDepositsBob]]
          /\ prev' = [ok |-> TRUE, balance |-> rc.result.balance,
                      totalDepositsAlice |-> rc.result.totalDepositsAlice,
                      totalDepositsBob |-> rc.result.totalDepositsBob]
     ELSE UNCHANGED <<chan, processed, prev>>
  /\ UNCHANGED <<sigVars, chain, lastBal, pu>>

\* a participant deposits on chain: the cumulative totals only grow
OnChainDeposit(assetId, who) ==
  /\ assetId \in DOMAIN chain
  /\ chain[assetId][who] < MaxDeposit
  /\ chain' = [chain EXCEPT ![assetId][who] = @ + 1]
  /\ UNCHANGED <<sigVars, chan, processed, rc, prev, lastBal, pu>>

(***************************************************************************)
(* getUpdatedChannelBalance applied to the ledger                          *)
(***************************************************************************)
TransferAmountStrings == {BigNumberToString(n) : n \in 0..MaxTransfer} \cup {Padded(1)}

TransferBalances ==
  [to : {<<Alice, Bob>>, <<Bob, Carol>>},
   amount : TransferAmountStrings \X TransferAmountStrings]

\* transfers that pay out to a recipient outside the channel
LedgerTransfers == {tb \in TransferBalances : tb.to = <<Bob, Carol>>}

InRange(amount) ==
  \A i \in 1..2 : /\ BigNumberFrom(amount[i]) <= MaxAmount
                  /\ BigNumberFrom(amount[i]) >= 0 - MaxAmount

\* one state transition at a time: the returned balance replaces the entry
ApplyTransfer(type, assetId, transferBalance, initiator) ==
  LET r == getUpdatedChannelBalance(type, assetId, transferBalance, chan, initiator) IN
  /\ rc.pc = "idle"
  /\ ~r.threw
  /\ InRange(r.amount)
  /\ chan' = ReplaceEntry(chan, FindIndex(chan.assetIds, assetId),
                          [to |-> r.to, amount |-> r.amount])
  /\ UNCHANGED <<sigVars, processed, chain, rc, prev, lastBal, pu>>

NoBalCall ==
  [called |-> FALSE, type |-> "", assetId |-> "", transfer |-> NoBalance, initiator |-> "",
   res |-> [threw |-> FALSE, to |-> <<>>, amount |-> <<>>]]

\* the function applied to drawn inputs
UpdateBalance(type, assetId, transferBalance, initiator) ==
  /\ ~lastBal.called
  /\ lastBal' = [called |-> TRUE, type |-> type, assetId |-> assetId,
                 transfer |-> transferBalance, initiator |-> initiator,
                 res |-> getUpdatedChannelBalance(type, assetId, transferBalance, chan,
                                                  initiator)]
  /\ UNCHANGED <<sigVars, chan, processed, chain, rc, prev, pu>>


(***************************************************************************)
(* getParamsFromUpdate and the update-application step it inverts          *)
(***************************************************************************)
ChannelAddress == "0xChannel"
UpdateTypes == {"setup", "deposit", "create", "resolve"}

SignerOf(address) == CHOOSE sg \in Signers : sg.address = address

Participants == {SignerOf(Alice), SignerOf(Bob)}

PeerOf(signer) == CHOOSE sg \in Participants : sg # signer

SetupParams ==
  [counterpartyIdentifier : {sg.publicIdentifier : sg \in Participants},
   timeout : {"3600", "7200"}, networkContext : NetworkContexts]

DepositParams == [channelAddress : {ChannelAddress}, assetId : {"ETH", "TKN"}]

CreateTransferParams ==
  [channelAddress : {ChannelAddress}, balance : TransferBalances, assetId : {"ETH", "TKN"},
   transferDefinition : {"0xHashlock"}, transferInitialState : {"lockHash1", "lockHash2"},
   timeout : {"3600"}, meta : {"none", "memo"}]

ResolveTransferParams ==
  [channelAddress : {ChannelAddress}, transferId : {"0xT1", "0xT2"},
   transferResolver : {"preImage1", "preImage2"}, meta : {"none", "memo"}]

UpdateParamsSet ==
  [channelAddress : {ChannelAddress}, type : {"setup"}, details : SetupParams]
  \cup [channelAddress : {ChannelAddress}, type : {"deposit"}, details : DepositParams]
  \cup [channelAddress : {ChannelAddress}, type : {"create"}, details : CreateTransferParams]
  \cup [channelAddress : {ChannelAddress}, type : {"resolve"}, details : ResolveTransferParams]

\* the update-application step: the ChannelUpdate that the params of the
\* initiator produce on the channel st
applyUpdate(params, initiator, st) ==
  LET d == params.details
      base == [channelAddress |-> params.channelAddress, type |-> params.type,
               fromIdentifier |-> initiator.publicIdentifier,
               toIdentifier |-> PeerOf(initiator).publicIdentifier,
               assetId |-> "0x0", details |-> <<>>]
  IN CASE params.type = "setup" ->
            [base EXCEPT !.toIdentifier = d.counterpartyIdentifier,
                         !.details = [networkContext |-> d.networkContext,
                                      timeout |-> d.timeout]]
       [] params.type = "deposit" ->
            [base EXCEPT !.assetId = d.assetId,
                         !.details = [totalDepositsAlice |-> Zero, totalDepositsBob |-> Zero]]
       [] params.type = "create" ->
            LET after == getUpdatedChannelBalance("create", d.assetId, d.balance, st,
                                                  initiator.address)
            IN [base EXCEPT !.assetId = d.assetId,
                            !.details = [balance |-> [to |-> after.to, amount |-> after.amount],
                                         transferInitialState |-> d.transferInitialState,
                                         transferDefinition |-> d.transferDefinition,
                                         transferTimeout |-> d.timeout,
                                         meta |-> d.meta]]
       [] params.type = "resolve" ->
            [base EXCEPT !.details = [transferId |-> d.transferId,
                                      transferResolver |-> d.transferResolver,
                                      meta |-> d.meta]]

InvalidUpdateType == [channelAddress |-> "", type |-> "threw", details |-> <<>>]

getParamsFromUpdate(update, signer) ==
  LET details == update.details IN
  IF update.type \notin UpdateTypes THEN InvalidUpdateType
  ELSE
  [channelAddress |-> update.channelAddress,
   type |-> update.type,
   details |->
     CASE update.type = "setup" ->
            [networkContext |-> details.networkContext,
             timeout |-> details.timeout,
             counterpartyIdentifier |->
                IF signer.publicIdentifier = update.fromIdentifier
                THEN update.toIdentifier ELSE update.fromIdentifier]
       [] update.type = "deposit" ->
            [channelAddress |-> update.channelAddress, assetId |-> update.assetId]
       [] update.type = "create" ->
            [balance |-> details.balance,
             channelAddress |-> update.channelAddress,
             assetId |-> update.assetId,
             transferDefinition |-> details.transferDefinition,
             transferInitialState |-> details.transferInitialState,
             timeout |-> details.transferTimeout,
             meta |-> details.meta]
       [] update.type = "resolve" ->
            [channelAddress |-> update.channelAddress,
             transferId |-> details.transferId,
             transferResolver |-> details.transferResolver,
             meta |-> details.meta]]

NoUpdate ==
  [channelAddress |-> "", type |-> "", fromIdentifier |-> "", toIdentifier |-> "",
   assetId |-> "", details |-> <<>>]

NoParams == [channelAddress |-> "", type |-> "", details |-> <<>>]

PuIdle ==
  [pc |-> "idle", params |-> NoParams, initiator |-> SignerOf(Alice), update |-> NoUpdate,
   reader |-> SignerOf(Alice), rebuilt |-> NoParams]

\* the initiator applies its params to the channel
ApplyUpdate ==
  /\ pu.pc = "params"
  /\ pu' = [pu EXCEPT !.pc = "applied",
                      !.update = applyUpdate(pu.params, pu.initiator, chan)]
  /\ UNCHANGED <<sigVars, ledgerVars>>

\* a participant recovers the params from the stored update when syncing
Reconstruct(signer) ==
  /\ pu.pc = "applied"
  /\ pu' = [pu EXCEPT !.pc = "rebuilt", !.reader = signer,
                      !.rebuilt = getParamsFromUpdate(pu.update, signer)]
  /\ UNCHANGED <<sigVars, ledgerVars>>

(***************************************************************************)
(* Specifications.                                                         *)
(***************************************************************************)
SetupBalance == [to |-> <<Alice, Bob>>, amount |-> <<Zero, Zero>>]

LedgerAmounts == {BigNumberToString(n) : n \in 0..MaxAmount}

FundedBalances == [to : {<<Alice, Bob>>}, amount : LedgerAmounts \X LedgerAmounts]

\* ledgers of a two-asset channel: the second asset funded or not yet
Ledgers ==
  [alice : {Alice}, bob : {Bob}, assetIds : {AssetIds},
   balances : {<<e>> : e \in FundedBalances}
              \cup {<<e, t>> : e \in FundedBalances, t \in FundedBalances}]

SigIdle ==
  /\ state = CHOOSE s \in FullChannelStates : TRUE
  /\ aliceSignature = Undefined
  /\ bobSignature = Undefined
  /\ fromEmpty = TRUE
  /\ trace = <<>>
  /\ last = NoCall
  /\ v = VIdle

LedgerIdle ==
  /\ chan = [alice |-> Alice, bob |-> Bob, assetIds |-> <<"ETH">>,
             balances |-> <<SetupBalance>>]
  /\ processed = [x \in {"ETH"} |-> [a |-> Zero, b |-> Zero]]
  /\ chain = [x \in {"ETH"} |-> [a |-> 0, b |-> 0]]
  /\ rc = RcIdle
  /\ prev = NoPrev
  /\ lastBal = NoBalCall

SigInit ==
  /\ state \in FullChannelStates
  /\ aliceSignature \in SigValues
  /\ bobSignature \in SigValues
  /\ fromEmpty = (~Truthy(aliceSignature) /\ ~Truthy(bobSignature))
  /\ trace = <<>>
  /\ last = NoCall
  /\ v = VIdle

\* signing: generateSignedChannelCommitment
InitSign == SigInit /\ LedgerIdle /\ pu = PuIdle

NextSign ==
  \/ \E signer \in Signers, signerThrows \in BOOLEAN : SignCommitment(signer, signerThrows)
  \/ \E ctx \in NetworkContexts : NewContext(ctx)

SpecSign == InitSign /\ [][NextSign]_vars

\* validation: validateChannelUpdateSignatures
InitValidate == SigInit /\ LedgerIdle /\ pu = PuIdle

NextValidate ==
  \/ \E requiredSigners \in RequiredSigners : ValidateCall(requiredSigners)
  \/ RecoverAliceSettles
  \/ RecoverBobSettles
  \/ Decide
  \/ ValidateReturn

SpecValidate == InitValidate /\ [][NextValidate]_vars

\* the ledger of a channel: reconcileDeposit and getUpdatedChannelBalance
InitLedger == SigIdle /\ LedgerIdle /\ pu = PuIdle

NextLedger ==
  \/ \E assetId \in {"ETH"} : ReconcileCall(assetId)
  \/ \E fails \in BOOLEAN : ReadTotalDepositedA(fails)
  \/ \E fails \in BOOLEAN : ReadTotalDepositedB(fails)
  \/ ReconcileReturn
  \/ \E assetId \in {"ETH"}, who \in {"a", "b"} : OnChainDeposit(assetId, who)
  \/ \E type \in {"create", "resolve"}, assetId \in {"ETH"}, tb \in LedgerTransfers,
        initiator \in {Alice, Bob} : ApplyTransfer(type, assetId, tb, initiator)

SpecLedger == InitLedger /\ [][NextLedger]_vars

\* getUpdatedChannelBalance on drawn inputs
InitBalance ==
  /\ SigIdle
  /\ chan \in Ledgers
  /\ processed = [x \in {"ETH"} |-> [a |-> Zero, b |-> Zero]]
  /\ chain = [x \in {"ETH"} |-> [a |-> 0, b |-> 0]]
  /\ rc = RcIdle
  /\ prev = NoPrev
  /\ lastBal = NoBalCall
  /\ pu = PuIdle

NextBalance ==
  \E type \in {"create", "resolve"}, assetId \in {"ETH", "TKN", "DAI"},
     tb \in TransferBalances, initiator \in {Alice, Bob, Carol} :
       UpdateBalance(type, assetId, tb, initiator)

SpecBalance == InitBalance /\ [][NextBalance]_vars

\* getParamsFromUpdate on the updates that applying drawn params produces
InitParams ==
  /\ SigIdle
  /\ chan \in Ledgers
  /\ processed = [x \in {"ETH"} |-> [a |-> Zero, b |-> Zero]]
  /\ chain = [x \in {"ETH"} |-> [a |-> 0, b |-> 0]]
  /\ rc = RcIdle
  /\ prev = NoPrev
  /\ lastBal = NoBalCall
  /\ \E p \in UpdateParamsSet, initiator \in Participants :
        /\ p.type = "setup" =>
              p.details.counterpartyIdentifier = PeerOf(initiator).publicIdentifier
        /\ pu = [PuIdle EXCEPT !.pc = "params", !.params = p, !.initiator = initiator]

NextParams ==
  \/ ApplyUpdate
  \/ \E signer \in Participants : Reconstruct(signer)

SpecParams == InitParams /\ [][NextParams]_vars


(***************************************************************************)
(* Properties.                                                             *)
(***************************************************************************)
CommitmentHash == hashChannelCommitment(CoreOf(state))

\* sig is a signature that recovers to address over the commitment of state
RecoversTo(sig, address) ==
  /\ state.encodable
  /\ sig.k = "sig"
  /\ sig.h = CommitmentHash
  /\ sig.by = address

QuorumRule(requiredSigners) ==
  /\ requiredSigners \in {"alice", "both"} => RecoversTo(aliceSignature, state.alice)
  /\ requiredSigners \in {"bob", "both"} => RecoversTo(bobSignature, state.bob)
  /\ Truthy(aliceSignature) => RecoversTo(aliceSignature, state.alice)
  /\ Truthy(bobSignature) => RecoversTo(bobSignature, state.bob)

\* C1: validateChannelUpdateSignatures succeeds if and only if every required
\* signer's signature recovers to that signer's address and every supplied
\* signature, required or not, recovers to its own slot's participant.
C1_QuorumRule ==
  v.pc = "done" => (v.result.ok <=> QuorumRule(v.req))

\* a valid alice signature with an invalid, unrequired bob signature is rejected
C1_Witness ==
  /\ v.pc = "done"
  /\ v.req = "alice"
  /\ RecoversTo(aliceSignature, state.alice)
  /\ Truthy(bobSignature)
  /\ ~RecoversTo(bobSignature, state.bob)
  /\ ~v.result.ok

\* C2: getParamsFromUpdate returns the params that were applied, for every
\* tag; for setup the counterpartyIdentifier is the peer of the caller.
C2_RoundTrip ==
  pu.pc = "rebuilt" =>
    IF pu.params.type = "setup"
    THEN pu.rebuilt = [pu.params EXCEPT !.details.counterpartyIdentifier =
                                           PeerOf(pu.reader).publicIdentifier]
    ELSE pu.rebuilt = pu.params

\* both signature arguments are present
BothPresent(aSig, bSig) == Truthy(aSig) /\ Truthy(bSig)

C3_LastCallKept ==
  (last.called /\ BothPresent(last.inA, last.inB)) =>
     /\ last.res.ok
     /\ last.res.aliceSignature = last.inA
     /\ last.res.bobSignature = last.inB
     /\ ~last.res.invoked

C3_PairFrozen ==
  BothPresent(aliceSignature, bobSignature) =>
     (aliceSignature' = aliceSignature /\ bobSignature' = bobSignature)

\* C3: a call with both signatures present returns them unchanged without
\* invoking signMessage, and once both slots are filled the pair never changes.
C3_NeverResigned == [](C3_LastCallKept) /\ [][C3_PairFrozen]_vars

\* a fully signed pair, one of them not even a signature, passed to a signer
C3_Witness ==
  /\ last.called
  /\ BothPresent(last.inA, last.inB)
  /\ last.inA = Malformed
  /\ last.signer = Alice
  /\ aliceSignature = Malformed

\* C4: when signing succeeds with a slot absent, the new signature is written
\* only into the slot whose participant address is the signer's address and
\* the other slot is returned as it was passed in.
C4_SlotPlacement ==
  (last.called /\ ~BothPresent(last.inA, last.inB) /\ last.res.ok) =>
     LET sig == Sig(last.signer, CommitmentHash) IN
     /\ last.res.aliceSignature = IF state.alice = last.signer THEN sig ELSE last.inA
     /\ last.res.bobSignature = IF state.bob = last.signer THEN sig ELSE last.inB

C5_Chained ==
  /\ rc.pc = "done"
  /\ rc.result.ok
  /\ prev.ok
  /\ rc.initialBalance = prev.balance
  /\ rc.processedA = prev.totalDepositsAlice
  /\ rc.processedB = prev.totalDepositsBob
  /\ rc.result.totalDepositsAlice = prev.totalDepositsAlice
  /\ rc.result.totalDepositsBob = prev.totalDepositsBob

\* C5: reconciling again from the returned balance and totals, against the
\* same on-chain totals, returns the same balance and the same totals.
C5_Idempotent ==
  C5_Chained =>
     /\ rc.result.balance.to = prev.balance.to
     /\ rc.result.balance.amount = prev.balance.amount

\* a second reconciliation after one that folded a deposit of alice in
C5_Witness ==
  /\ C5_Chained
  /\ BigNumberFrom(prev.totalDepositsAlice) > 0
  /\ BigNumberFrom(prev.balance.amount[1]) > 0

C6_Existing ==
  LET idx == CHOOSE i \in 1..Len(chan.assetIds) : chan.assetIds[i] = lastBal.assetId IN
  IF idx \in DOMAIN chan.balances /\ chan.balances[idx] # NoBalance THEN chan.balances[idx]
  ELSE [to |-> <<chan.alice, chan.bob>>, amount |-> <<BigNumberToString(0), BigNumberToString(0)>>]

C6_Signed(n) == IF lastBal.type = "create" THEN 0 - n ELSE n

\* C6: getUpdatedChannelBalance keeps the existing to and moves each amount by
\* the transfer amount of the participant's role: amount[0] of the transfer
\* for the initiator, amount[1] otherwise, subtracted on create and added on
\* resolve.
C6_ByRole ==
  (lastBal.called /\ lastBal.assetId \in {chan.assetIds[i] : i \in DOMAIN chan.assetIds}) =>
     LET a == IF lastBal.initiator = chan.alice THEN lastBal.transfer.amount[1]
              ELSE lastBal.transfer.amount[2]
         b == IF lastBal.initiator = chan.bob THEN lastBal.transfer.amount[1]
              ELSE lastBal.transfer.amount[2]
     IN /\ ~lastBal.res.threw
        /\ lastBal.res.to = C6_Existing.to
        /\ lastBal.res.amount[1] =
             BigNumberToString(BigNumberFrom(C6_Existing.amount[1]) + C6_Signed(BigNumberFrom(a)))
        /\ lastBal.res.amount[2] =
             BigNumberToString(BigNumberFrom(C6_Existing.amount[2]) + C6_Signed(BigNumberFrom(b)))

\* bob initiates a transfer whose first recipient is alice, on an asset that
\* has no ledger entry yet
C6_Witness ==
  /\ lastBal.called
  /\ lastBal.type = "resolve"
  /\ lastBal.assetId = "TKN"
  /\ Len(chan.balances) = 1
  /\ lastBal.initiator = Bob
  /\ lastBal.transfer.to[1] = Alice
  /\ BigNumberFrom(lastBal.transfer.amount[1]) = 2
  /\ BigNumberFrom(lastBal.transfer.amount[2]) = 1
  /\ BigNumberFrom(lastBal.res.amount[2]) = 2

\* C7: both amounts of every Balance in the ledger are non-negative.
C7_NonNegative ==
  \A i \in DOMAIN chan.balances :
     chan.balances[i] # NoBalance =>
        \A j \in 1..2 : BigNumberFrom(chan.balances[i].amount[j]) >= 0

\* C8: reconcileDeposit returns a balance only when both chain reads have
\* succeeded; a failed read returns exactly that read's error, without
\* balance or totals, and no arithmetic is performed.
C8_NoPartialResult ==
  /\ rc.computed => (rc.readA = "ok" /\ rc.readB = "ok")
  /\ rc.pc = "done" =>
       /\ rc.result.ok <=> (rc.readA = "ok" /\ rc.readB = "ok")
       /\ rc.result.ok => (rc.result.balance # NoBalance /\ rc.computed)
       /\ rc.readA = "fail" =>
            (rc.result.err = "getTotalDepositedA failed" /\ rc.readB = "none")
       /\ rc.readB = "fail" => rc.result.err = "getTotalDepositedB failed"
       /\ ~rc.result.ok =>
            /\ rc.result.balance = NoBalance
            /\ rc.result.totalDepositsAlice = <<>>
            /\ rc.result.totalDepositsBob = <<>>
            /\ ~rc.computed

\* the read of alice's deposits succeeded, the read of bob's failed
C8_Witness ==
  /\ rc.pc = "done"
  /\ rc.readA = "ok"
  /\ rc.totalA > 0
  /\ rc.readB = "fail"
  /\ ~rc.result.ok

\* C9: the decision is taken after both recoveries have settled and is the
\* same, error message included, whichever recovery settled first.
C9_OrderIrrelevant ==
  v.pc = "done" =>
     /\ v.result = validateChannelUpdateSignatures(state, aliceSignature, bobSignature, v.req)
     /\ ~HashThrows(CoreOf(state)) =>
          (v.done = {"alice", "bob"} /\ v.rAlice # Pending /\ v.rBob # Pending)

\* bob's recovery settled first and alice's recovery error was kept as text
C9_Witness ==
  /\ v.pc = "done"
  /\ v.order = <<"bob", "alice">>
  /\ v.rAlice = RecoveryErrorMessage
  /\ v.rBob = state.bob
  /\ v.req = "both"
  /\ ~v.result.ok

C10_BothSignedOnce ==
  /\ fromEmpty
  /\ Len(trace) = 2
  /\ {trace[1].by, trace[2].by} = {state.alice, state.bob}

\* C10: after alice's and bob's signers have each signed the state once, in
\* either order and under any networkContext, the pair validates for both.
C10_SignThenValidate ==
  C10_BothSignedOnce =>
     validateChannelUpdateSignatures(state, aliceSignature, bobSignature, "both").ok

\* bob signed first; the two calls and the validation saw different contexts
C10_Witness ==
  /\ C10_BothSignedOnce
  /\ trace[1].by = Bob
  /\ trace[1].ctx # trace[2].ctx
  /\ state.networkContext # trace[2].ctx
  /\ validateChannelUpdateSignatures(state, aliceSignature, bobSignature, "both").ok

====
